---- MODULE Spec2Model ----
(***************************************************************************)
(* Model of package semver (src/semver.go): Parse's scanning loop,         *)
(* Version.String, and the comparison methods Equals, GreaterThan and      *)
(* LessThan.                                                               *)
(*                                                                         *)
(* A Go string is modelled as a sequence of one-character strings, so      *)
(* "v1.2" is <<"v", "1", ".", "2">>.  Cursors (pos, curs) are 0-based as   *)
(* in the Go code; s[pos] in Go is s[pos + 1] here.                        *)
(***************************************************************************)
EXTENDS Integers, Sequences, FiniteSets, TLC

VARIABLES
    s,       \* Parse: the argument string
    state,   \* Parse: current parseState
    pos,     \* Parse: cursor into s
    v,       \* Parse: the Version being filled in and returned
    err,     \* Parse: the error returned (NoError while running)
    buf,     \* Parse: the scratch bytes.Buffer handed to readNextNum
    pc,      \* Parse: "entry", "loop", "done"; "rendered" after String();
             \* "idle" where only Versions are compared
    iter,    \* history: number of loop iterations of Parse started so far
    out,     \* result of String() on the parsed Version
    a,       \* comparison: receiver Version
    b,       \* comparison: argument Version
    eqAB,    \* result of a.Equals(b): {} before the call, then {TRUE} or {FALSE}
    gtAB,    \* result of a.GreaterThan(b)
    gtBA,    \* result of b.GreaterThan(a)
    ltAB     \* result of a.LessThan(b)

parseVars == <<s, state, pos, v, err, buf, pc, iter, out>>
cmpVars == <<a, b, eqAB, gtAB, gtBA, ltAB>>
vars == <<s, state, pos, v, err, buf, pc, iter, out, a, b, eqAB, gtAB, gtBA, ltAB>>

----------------------------------------------------------------------------
(* Bounds of the model *)

\* longest free-form input string
MaxLen == 6
\* longest prerelease tag of the fully specified inputs
MaxPre == 2
\* longest free-form input string of the termination check
MaxFairLen == 4

----------------------------------------------------------------------------
(* Characters *)

DigitChars == <<"0", "1", "2", "3", "4", "5", "6", "7", "8", "9">>

Letters == <<"a", "b", "c", "d", "e", "f", "g", "h", "i", "j", "k", "l", "m",
             "n", "o", "p", "q", "r", "s", "t", "u", "v", "w", "x", "y", "z">>

IsDigit(c) == \E i \in 1..10 : DigitChars[i] = c

DigitVal(c) == (CHOOSE i \in 1..10 : DigitChars[i] = c) - 1

\* the byte value of a character (ASCII), which Go's string comparison uses
Byte(c) ==
    IF c = "+" THEN 43
    ELSE IF c = "-" THEN 45
    ELSE IF c = "." THEN 46
    ELSE IF IsDigit(c) THEN 48 + DigitVal(c)
    ELSE 96 + (CHOOSE i \in 1..26 : Letters[i] = c)

----------------------------------------------------------------------------
(* Parse states and errors *)

atStart == 0
foundV == 1
foundMajor == 2
foundMinor == 3
foundPatch == 4
foundPrerelease == 5

NoError == "nil"
EmptyVersion == "Empty version string"
IllegalVersion == "Illegal version string"

\* faulty variant: the -1 of the struct's comment for parts not given
NewVersion_sentinel == [Major |-> 0, Minor |-> -1, Patch |-> -1, Prerelease |-> <<>>]
\* var v Version: the zero value
NewVersion == [Major |-> 0, Minor |-> 0, Patch |-> 0, Prerelease |-> <<>>]

----------------------------------------------------------------------------
(* strconv.Atoi and fmt's %d *)

\* the largest int.  Go's int is 32 bits wide on a 32-bit target and 64 bits
\* wide on a 64-bit one; the model takes the 32-bit target, whose values are
\* the integers TLC has.  The 64-bit target differs only in the limit, 2^63 - 1.
IntMax == 2147483647

\* the digits of -(IntMax + 1), the smallest int
IntMinDigits == <<"2", "1", "4", "7", "4", "8", "3", "6", "4", "8">>

\* %d of fmt.Sprintf
RECURSIVE Itoa(_)
Itoa(n) ==
    IF n < 0 THEN <<"-">> \o Itoa(0 - n)
    ELSE IF n < 10 THEN <<DigitChars[n + 1]>>
    ELSE Itoa(n \div 10) \o <<DigitChars[(n % 10) + 1]>>

RECURSIVE DigitsValue(_)
DigitsValue(d) ==
    IF d = <<>> THEN 0
    ELSE 10 * DigitsValue(SubSeq(d, 1, Len(d) - 1)) + DigitVal(d[Len(d)])

RECURSIVE StripZeros(_)
StripZeros(d) == IF Len(d) > 1 /\ d[1] = "0" THEN StripZeros(Tail(d)) ELSE d

\* x < y as numbers, for runs of digits of the same length
RECURSIVE DigitsLess(_, _)
DigitsLess(x, y) ==
    IF x = <<>> THEN FALSE
    ELSE IF x[1] # y[1] THEN DigitVal(x[1]) < DigitVal(y[1])
    ELSE DigitsLess(Tail(x), Tail(y))

\* the number a run of digits denotes is above IntMax
ExceedsInt(d) ==
    LET z == StripZeros(d)
        m == Itoa(IntMax)
    IN  Len(z) > Len(m) \/ (Len(z) = Len(m) /\ DigitsLess(m, z))

\* the conversion of a sign and a run of digits: the value, or the range error
atoiDigits(negative, digits) ==
    IF ~ExceedsInt(digits)
    THEN [val |-> IF negative THEN 0 - DigitsValue(digits) ELSE DigitsValue(digits),
          err |-> NoError]
    ELSE IF negative /\ StripZeros(digits) = IntMinDigits
    THEN [val |-> (0 - IntMax) - 1, err |-> NoError]
    ELSE [val |-> IF negative THEN (0 - IntMax) - 1 ELSE IntMax,
          err |-> "value out of range"]

\* faulty variant: an empty run converts to 0
Atoi_emptyZero(str) ==
    LET signed == Len(str) > 0 /\ str[1] \in {"+", "-"}
        digits == IF signed THEN Tail(str) ELSE str
    IN  IF \A i \in 1..Len(digits) : IsDigit(digits[i])
        THEN atoiDigits(signed /\ str[1] = "-", digits)
        ELSE [val |-> 0, err |-> "invalid syntax"]
\* strconv.Atoi: an optional sign, then one or more decimal digits, denoting a
\* number in the range of int
Atoi(str) ==
    LET signed == Len(str) > 0 /\ str[1] \in {"+", "-"}
        digits == IF signed THEN Tail(str) ELSE str
    IN  IF Len(digits) > 0 /\ \A i \in 1..Len(digits) : IsDigit(digits[i])
        THEN atoiDigits(signed /\ str[1] = "-", digits)
        ELSE [val |-> 0, err |-> "invalid syntax"]

----------------------------------------------------------------------------
(* Version.String *)

\* faulty variant: the Prerelease is appended without its hyphen
String_noHyphen(ver) ==
    <<"v">> \o Itoa(ver.Major) \o <<".">> \o Itoa(ver.Minor) \o <<".">>
        \o Itoa(ver.Patch) \o ver.Prerelease
\* func (v Version) String() string
String(ver) ==
    IF Len(ver.Prerelease) > 0
    THEN <<"v">> \o Itoa(ver.Major) \o <<".">> \o Itoa(ver.Minor) \o <<".">>
            \o Itoa(ver.Patch) \o <<"-">> \o ver.Prerelease
    ELSE <<"v">> \o Itoa(ver.Major) \o <<".">> \o Itoa(ver.Minor) \o <<".">>
            \o Itoa(ver.Patch)

----------------------------------------------------------------------------
(* readNextNum *)

\* the for loop of readNextNum: copy bytes to buf up to a '.', a '-' or the end
RECURSIVE scanRun(_, _, _)
scanRun(str, curs, bf) ==
    IF curs < Len(str) /\ str[curs + 1] # "." /\ str[curs + 1] # "-"
    THEN scanRun(str, curs + 1, Append(bf, str[curs + 1]))
    ELSE [curs |-> curs, buf |-> bf]

\* returns (number, new cursor, error); buf is reset on return (defer)
readNextNum(str, curs, bf) ==
    LET r == scanRun(str, curs, bf)
        n == Atoi(r.buf)
    IN  IF n.err # NoError
        THEN [num |-> -1, curs |-> r.curs, err |-> IllegalVersion, buf |-> <<>>]
        ELSE [num |-> n.val, curs |-> r.curs + 1, err |-> NoError, buf |-> <<>>]

----------------------------------------------------------------------------
(* Parse, as steps over its frame f = [s, state, pos, v, err, buf, pc] *)

NewFrame(str) ==
    [s |-> str, state |-> atStart, pos |-> 0, v |-> NewVersion,
     err |-> NoError, buf |-> <<>>, pc |-> "entry"]

\* faulty variant: the length check is missing
parseEntry_noEmptyCheck(f) == [f EXCEPT !.pc = "loop"]
\* if len(s) == 0 { return v, EmptyVersion }
parseEntry(f) ==
    IF Len(f.s) = 0
    THEN [f EXCEPT !.err = EmptyVersion, !.pc = "done"]
    ELSE [f EXCEPT !.pc = "loop"]

\* case atStart
caseAtStart(f) ==
    IF f.s[f.pos + 1] = "v"
    THEN [f EXCEPT !.pos = f.pos + 1, !.state = foundV]
    ELSE [f EXCEPT !.err = IllegalVersion, !.pc = "done"]

\* case foundV
caseFoundV(f) ==
    LET r == readNextNum(f.s, f.pos, f.buf)
    IN  IF r.err # NoError
        THEN [f EXCEPT !.pos = r.curs, !.buf = r.buf, !.err = r.err, !.pc = "done"]
        ELSE [f EXCEPT !.pos = r.curs, !.buf = r.buf, !.v.Major = r.num,
                       !.state = foundMajor]

\* case foundMajor
caseFoundMajor(f) ==
    LET r == readNextNum(f.s, f.pos, f.buf)
    IN  IF r.err # NoError
        THEN [f EXCEPT !.pos = r.curs, !.buf = r.buf, !.err = r.err, !.pc = "done"]
        ELSE [f EXCEPT !.pos = r.curs, !.buf = r.buf, !.v.Minor = r.num,
                       !.state = foundMinor]

\* case foundMinor
caseFoundMinor(f) ==
    LET r == readNextNum(f.s, f.pos, f.buf)
    IN  IF r.err # NoError
        THEN [f EXCEPT !.pos = r.curs, !.buf = r.buf, !.err = r.err, !.pc = "done"]
        ELSE [f EXCEPT !.pos = r.curs, !.buf = r.buf, !.v.Patch = r.num,
                       !.state = foundPatch]

\* faulty variant of case foundPatch: pos is left where it is
caseFoundPatch_noAdvance(f) ==
    [f EXCEPT !.v.Prerelease = SubSeq(f.s, f.pos + 1, Len(f.s)),
              !.state = foundPrerelease]
\* case foundPatch
caseFoundPatch(f) ==
    [f EXCEPT !.v.Prerelease = SubSeq(f.s, f.pos + 1, Len(f.s)),
              !.pos = Len(f.s),
              !.state = foundPrerelease]

\* after the loop: at minimum a major version is needed
loopExit(f) ==
    IF f.state < foundMajor
    THEN [f EXCEPT !.err = IllegalVersion, !.pc = "done"]
    ELSE [f EXCEPT !.err = NoError, !.pc = "done"]

\* one step of Parse: the entry check, one loop iteration, or the loop's exit
parseStep(f) ==
    IF f.pc = "entry" THEN parseEntry(f)
    ELSE IF f.pos < Len(f.s)
    THEN CASE f.state = atStart -> caseAtStart(f)
           [] f.state = foundV -> caseFoundV(f)
           [] f.state = foundMajor -> caseFoundMajor(f)
           [] f.state = foundMinor -> caseFoundMinor(f)
           [] f.state = foundPatch -> caseFoundPatch(f)
           [] OTHER -> f
    ELSE loopExit(f)

RECURSIVE parseRun(_)
parseRun(f) == IF f.pc = "done" THEN f ELSE parseRun(parseStep(f))

\* Parse(s): the frame at return; its v and err are the results
Parse(str) == parseRun(NewFrame(str))

----------------------------------------------------------------------------
(* Input strings *)

\* characters of the free-form inputs: the prefix, both separators, a sign and
\* two digits ("v" also serves as a non-digit inside a field)
Chars == {"v", ".", "-", "+", "0", "1"}

\* every string over Chars of length 0..MaxLen
FreeInputs == UNION {[1..k -> Chars] : k \in 0..MaxLen}

\* decimal integers without leading zeros
CanonNums == {<<"0">>, <<"1">>, <<"7">>, <<"1", "0">>, <<"4", "2">>}

PreChars == {"a", "1", ".", "-"}

\* non-empty prerelease tags
PreTags == UNION {[1..k -> PreChars] : k \in 1..MaxPre}

\* vMAJ.MIN.PAT and vMAJ.MIN.PAT-PRE
FullInputs ==
    {<<"v">> \o M \o <<".">> \o m \o <<".">> \o p \o t :
        M \in CanonNums, m \in CanonNums, p \in CanonNums,
        t \in {<<>>} \cup {<<"-">> \o x : x \in PreTags}}

\* the inputs of TestParse; "" is the empty string of FreeInputs
TestInputs ==
    {<<"v", "0">>,
     <<"v", "1">>,
     <<"v", "1", ".", "2">>,
     <<"v", "1", ".", "2", ".", "3">>,
     <<"v", "1", ".", "2", ".", "3", "-", "r", "c", ".", "2">>,
     <<"v", "2", ".", "0", ".", "0", "-", "b", "e", "t", "a">>,
     <<"v">>,
     <<"v", ".">>,
     <<"v", ".", ".">>,
     <<"1">>,
     <<"1", ".", "2">>,
     <<"v", "1", ".", "l", "o", "l">>,
     <<"v", "1", ".", "2", ".", "h", "a", "h", "a">>,
     <<"1", ".", "2", ".", "3">>,
     <<"1", ".", "2", ".", "3", "h", "a", "h", "a">>,
     <<"v", "-">>}

\* further inputs named in the specification and the README
ExampleInputs ==
    {<<"v", "2">>,
     <<"v", "2", ".", "4">>,
     <<"v", "1", ".", "0", ".", "7", "-", "a", "l", "p", "h", "a">>,
     <<"v", "1", "-", "b", "e", "t", "a">>,
     <<"v", "1", ".", "2", "-", "r", "c">>,
     <<"v", "1", ".", ".", "3">>,
     <<"v", "1", ".">>,
     <<"v", "1", ".", "2", ".">>,
     <<"v", "1", "-">>,
     <<"v", "+", "1">>,
     <<"v", "1", ".", "+", "2">>,
     <<"v", "1", ".", "2", ".", "+", "3">>,
     <<"v", "0", "1", ".", "2", ".", "3">>,
     <<"v", "1", ".", "2", ".", "3", "-">>,
     <<"v", "1", ".", "2", ".", "3", ".", "b", "e", "t", "a">>}

\* inputs with numbers at and above IntMax
LimitInputs ==
    {<<"v", "2", "1", "4", "7", "4", "8", "3", "6", "4", "7", ".", "0", ".", "0">>,
     <<"v", "2", "1", "4", "7", "4", "8", "3", "6", "4", "8", ".", "0", ".", "0">>,
     <<"v", "1", ".", "0", "2", "1", "4", "7", "4", "8", "3", "6", "4", "7", ".", "3", "-", "x">>,
     <<"v", "1", ".", "2", ".", "9", "9", "9", "9", "9", "9", "9", "9", "9", "9", "9">>,
     <<"v", "9", "9", "9", "9", "9", "9", "9", "9", "9", "9", "9", ".">>}

Inputs ==
    FreeInputs \cup FullInputs \cup TestInputs \cup ExampleInputs \cup LimitInputs

----------------------------------------------------------------------------
(* The parser as a state machine: Parse(s), then String() on success *)

Frame ==
    [s |-> s, state |-> state, pos |-> pos, v |-> v, err |-> err, buf |-> buf,
     pc |-> pc]

Becomes(f) ==
    /\ s' = f.s
    /\ state' = f.state
    /\ pos' = f.pos
    /\ v' = f.v
    /\ err' = f.err
    /\ buf' = f.buf
    /\ pc' = f.pc

NoVersion == NewVersion

Init ==
    /\ s \in Inputs
    /\ state = atStart
    /\ pos = 0
    /\ v = NewVersion
    /\ err = NoError
    /\ buf = <<>>
    /\ pc = "entry"
    /\ iter = 0
    /\ out = <<>>
    /\ a = NoVersion
    /\ b = NoVersion
    /\ eqAB = {}
    /\ gtAB = {}
    /\ gtBA = {}
    /\ ltAB = {}

ParseEntry ==
    /\ pc = "entry"
    /\ Becomes(parseEntry(Frame))
    /\ UNCHANGED <<iter, out>>
    /\ UNCHANGED cmpVars

AtStart ==
    /\ pc = "loop"
    /\ pos < Len(s)
    /\ state = atStart
    /\ Becomes(caseAtStart(Frame))
    /\ iter' = iter + 1
    /\ UNCHANGED out
    /\ UNCHANGED cmpVars

FoundV ==
    /\ pc = "loop"
    /\ pos < Len(s)
    /\ state = foundV
    /\ Becomes(caseFoundV(Frame))
    /\ iter' = iter + 1
    /\ UNCHANGED out
    /\ UNCHANGED cmpVars

FoundMajor ==
    /\ pc = "loop"
    /\ pos < Len(s)
    /\ state = foundMajor
    /\ Becomes(caseFoundMajor(Frame))
    /\ iter' = iter + 1
    /\ UNCHANGED out
    /\ UNCHANGED cmpVars

FoundMinor ==
    /\ pc = "loop"
    /\ pos < Len(s)
    /\ state = foundMinor
    /\ Becomes(caseFoundMinor(Frame))
    /\ iter' = iter + 1
    /\ UNCHANGED out
    /\ UNCHANGED cmpVars

FoundPatch ==
    /\ pc = "loop"
    /\ pos < Len(s)
    /\ state = foundPatch
    /\ Becomes(caseFoundPatch(Frame))
    /\ iter' = iter + 1
    /\ UNCHANGED out
    /\ UNCHANGED cmpVars

LoopExit ==
    /\ pc = "loop"
    /\ ~(pos < Len(s))
    /\ Becomes(loopExit(Frame))
    /\ UNCHANGED <<iter, out>>
    /\ UNCHANGED cmpVars

\* the caller prints the Version of a successful Parse
CallString ==
    /\ pc = "done"
    /\ err = NoError
    /\ out' = String(v)
    /\ pc' = "rendered"
    /\ UNCHANGED <<s, state, pos, v, err, buf, iter>>
    /\ UNCHANGED cmpVars

Next ==
    \/ ParseEntry
    \/ AtStart
    \/ FoundV
    \/ FoundMajor
    \/ FoundMinor
    \/ FoundPatch
    \/ LoopExit
    \/ CallString

Spec == Init /\ [][Next]_vars

----------------------------------------------------------------------------
(* Comparison methods *)

\* Go's x < y on strings: bytewise lexicographic, a proper prefix is smaller
RECURSIVE StrLess(_, _)
StrLess(x, y) ==
    IF y = <<>> THEN FALSE
    ELSE IF x = <<>> THEN TRUE
    ELSE IF Byte(x[1]) # Byte(y[1]) THEN Byte(x[1]) < Byte(y[1])
    ELSE StrLess(Tail(x), Tail(y))

\* sort.Strings: the sequence in increasing order (insertion sort)
RECURSIVE insertString(_, _)
insertString(x, sorted) ==
    IF sorted = <<>> THEN <<x>>
    ELSE IF StrLess(x, sorted[1]) THEN <<x>> \o sorted
    ELSE <<sorted[1]>> \o insertString(x, Tail(sorted))

RECURSIVE SortStrings(_)
SortStrings(sl) ==
    IF sl = <<>> THEN <<>>
    ELSE insertString(sl[1], SortStrings(Tail(sl)))

\* func (v Version) GreaterThan(o Version) bool
GreaterThan(ver, o) ==
    IF ver.Major > o.Major THEN TRUE
    ELSE IF ver.Minor > o.Minor THEN TRUE
    ELSE IF ver.Patch > o.Patch THEN TRUE
    ELSE IF ver.Prerelease = o.Prerelease THEN FALSE
    ELSE LET sl == SortStrings(<<ver.Prerelease, o.Prerelease>>)
         IN  IF sl[1] = ver.Prerelease THEN FALSE ELSE TRUE

\* func (v Version) Equals(o Version) bool
Equals(ver, o) ==
    /\ ver.Major = o.Major
    /\ ver.Minor = o.Minor
    /\ ver.Patch = o.Patch
    /\ ver.Prerelease = o.Prerelease

\* func (v Version) LessThan(o Version) bool
LessThan(ver, o) == ~Equals(ver, o) /\ ~GreaterThan(ver, o)

----------------------------------------------------------------------------
(* The comparator: two Versions obtained from Parse, then the comparisons *)

CmpNums == {<<"0">>, <<"1">>, <<"2">>}

CmpTags == {<<"a">>, <<"b">>, <<"a", "b">>}

\* vMAJ, vMAJ.MIN, vMAJ.MIN.PAT and vMAJ.MIN.PAT-PRE
CmpInputs ==
    {<<"v">> \o M : M \in CmpNums}
    \cup {<<"v">> \o M \o <<".">> \o m : M \in CmpNums, m \in CmpNums}
    \cup {<<"v">> \o M \o <<".">> \o m \o <<".">> \o p \o t :
            M \in CmpNums, m \in CmpNums, p \in CmpNums,
            t \in {<<>>} \cup {<<"-">> \o x : x \in CmpTags}}

\* the Versions of the successful Parse calls on CmpInputs
ParsedVersions == {Parse(x).v : x \in {y \in CmpInputs : Parse(y).err = NoError}}

InitCmp ==
    /\ s = <<>>
    /\ state = atStart
    /\ pos = 0
    /\ v = NewVersion
    /\ err = NoError
    /\ buf = <<>>
    /\ pc = "idle"
    /\ iter = 0
    /\ out = <<>>
    /\ a \in ParsedVersions
    /\ b \in ParsedVersions
    /\ eqAB = {}
    /\ gtAB = {}
    /\ gtBA = {}
    /\ ltAB = {}

CallEquals ==
    /\ eqAB = {}
    /\ eqAB' = {Equals(a, b)}
    /\ UNCHANGED <<a, b, gtAB, gtBA, ltAB>>
    /\ UNCHANGED parseVars

CallGreaterThan ==
    /\ gtAB = {}
    /\ gtAB' = {GreaterThan(a, b)}
    /\ UNCHANGED <<a, b, eqAB, gtBA, ltAB>>
    /\ UNCHANGED parseVars

CallGreaterThanReversed ==
    /\ gtBA = {}
    /\ gtBA' = {GreaterThan(b, a)}
    /\ UNCHANGED <<a, b, eqAB, gtAB, ltAB>>
    /\ UNCHANGED parseVars

CallLessThan ==
    /\ ltAB = {}
    /\ ltAB' = {LessThan(a, b)}
    /\ UNCHANGED <<a, b, eqAB, gtAB, gtBA>>
    /\ UNCHANGED parseVars

NextCmp ==
    \/ CallEquals
    \/ CallGreaterThan
    \/ CallGreaterThanReversed
    \/ CallLessThan

SpecCmp == InitCmp /\ [][NextCmp]_vars

----------------------------------------------------------------------------
(* The shape of an input string, read off the string alone *)

Seps == {".", "-"}

\* index (1-based) of the first separator at or after index i; Len(str) + 1 if none
RECURSIVE FirstSep(_, _)
FirstSep(str, i) ==
    IF i > Len(str) \/ str[i] \in Seps THEN i ELSE FirstSep(str, i + 1)

\* for a string that starts with "v": where the runs of the numeric fields the
\* string has (1 to 3 of them) end.  Field k + 1 is there when a separator ends
\* run k.
FieldEnds(str) ==
    LET e1 == FirstSep(str, 2)
        e2 == FirstSep(str, e1 + 1)
        e3 == FirstSep(str, e2 + 1)
    IN  IF e1 > Len(str) THEN <<e1>>
        ELSE IF e2 > Len(str) THEN <<e1, e2>>
        ELSE <<e1, e2, e3>>

\* the runs of those numeric fields
FieldRuns(str) ==
    LET e == FieldEnds(str)
    IN  [k \in 1..Len(e) |->
            SubSeq(str, (IF k = 1 THEN 2 ELSE e[k - 1] + 1), e[k] - 1)]

HasPrefixV(str) == Len(str) > 0 /\ str[1] = "v"

IsDigits(run) == Len(run) > 0 /\ \A i \in 1..Len(run) : IsDigit(run[i])

\* a decimal integer without leading zeros
IsCanonical(run) == IsDigits(run) /\ (Len(run) = 1 \/ run[1] # "0")

\* vMAJ.MIN.PAT or vMAJ.MIN.PAT-PRE with canonical integers and PRE non-empty
IsFullForm(str) ==
    /\ HasPrefixV(str)
    /\ Len(FieldEnds(str)) = 3
    /\ \A k \in 1..3 : IsCanonical(FieldRuns(str)[k])
    /\ str[FieldEnds(str)[1]] = "."
    /\ str[FieldEnds(str)[2]] = "."
    /\ \/ FieldEnds(str)[3] > Len(str)
       \/ str[FieldEnds(str)[3]] = "-" /\ FieldEnds(str)[3] < Len(str)

FullFormInputs == {x \in Inputs : IsFullForm(x)}

Returned == pc \in {"done", "rendered"}

\* the inputs of the termination check: the test and example inputs and every
\* free-form input of length 0..MaxFairLen
FairInit ==
    /\ Init
    /\ Len(s) <= MaxFairLen \/ s \in TestInputs \cup ExampleInputs

\* Parse with the fairness its sequential execution gives: a call that can
\* take a step takes it
FairSpec == FairInit /\ [][Next]_vars /\ WF_vars(Next)

----------------------------------------------------------------------------
(* Claims about the comparison methods, checked under SpecCmp *)

ComparedAll == eqAB # {} /\ gtAB # {} /\ gtBA # {}

\* C1: for every pair of Versions a, b obtained from successful Parse calls,
\* exactly one of a.Equals(b), a.GreaterThan(b), b.GreaterThan(a) is true.
C1_ExactlyOneRelation ==
    ComparedAll =>
        \/ eqAB = {TRUE} /\ gtAB = {FALSE} /\ gtBA = {FALSE}
        \/ eqAB = {FALSE} /\ gtAB = {TRUE} /\ gtBA = {FALSE}
        \/ eqAB = {FALSE} /\ gtAB = {FALSE} /\ gtBA = {TRUE}

\* C2: when a.Major < b.Major, a.GreaterThan(b) is false and a.LessThan(b) is
\* true, whatever the other fields are.
C2_SmallerMajorIsLess ==
    a.Major < b.Major =>
        /\ gtAB # {} => gtAB = {FALSE}
        /\ ltAB # {} => ltAB = {TRUE}

\* C3: with equal Major, Minor and Patch, a Version with an empty Prerelease is
\* GreaterThan one with a non-empty Prerelease, and the reverse comparison is
\* false.
C3_EmptyPrereleaseIsGreater ==
    (/\ a.Major = b.Major
     /\ a.Minor = b.Minor
     /\ a.Patch = b.Patch
     /\ a.Prerelease = <<>>
     /\ b.Prerelease # <<>>) =>
        /\ gtAB # {} => gtAB = {TRUE}
        /\ gtBA # {} => gtBA = {FALSE}

----------------------------------------------------------------------------
(* Claims about Parse and String, checked under Spec *)

\* C4: when the separator that ends the major or the minor run is '-', Parse
\* stops reading numeric fields: it succeeds, the fields not yet read are 0 and
\* everything after that '-' is the Prerelease.
C4_HyphenEndsNumericFields ==
    (Returned /\ HasPrefixV(s) /\ Len(FieldEnds(s)) >= 2) =>
        LET e == FieldEnds(s)
            r == FieldRuns(s)
        IN  /\ (IsDigits(r[1]) /\ ~ExceedsInt(r[1]) /\ s[e[1]] = "-") =>
                    /\ err = NoError
                    /\ v = [Major |-> DigitsValue(r[1]), Minor |-> 0, Patch |-> 0,
                            Prerelease |-> SubSeq(s, e[1] + 1, Len(s))]
            /\ (/\ IsDigits(r[1])
                /\ ~ExceedsInt(r[1])
                /\ s[e[1]] = "."
                /\ IsDigits(r[2])
                /\ ~ExceedsInt(r[2])
                /\ Len(e) = 3
                /\ s[e[2]] = "-") =>
                    /\ err = NoError
                    /\ v = [Major |-> DigitsValue(r[1]), Minor |-> DigitsValue(r[2]),
                            Patch |-> 0,
                            Prerelease |-> SubSeq(s, e[2] + 1, Len(s))]

\* C5 as stated: for every input vMAJ.MIN.PAT or vMAJ.MIN.PAT-PRE with
\* canonical integers and a non-empty PRE, Parse succeeds and String() of the
\* result is the input again.
C5_RoundTrip ==
    s \in FullFormInputs =>
        /\ Returned => err = NoError
        /\ pc = "rendered" => out = s

\* MAJ, MIN and PAT of a full-form input are in the range of int
FieldsFitInt(str) == \A k \in 1..Len(FieldRuns(str)) : ~ExceedsInt(FieldRuns(str)[k])

\* C5 as amended: the same, for inputs whose MAJ, MIN and PAT are in the range
\* of int.
C5_RoundTripInRange ==
    (s \in FullFormInputs /\ FieldsFitInt(s)) =>
        /\ Returned => err = NoError
        /\ pc = "rendered" => out = s

C5_Witness ==
    /\ pc = "rendered"
    /\ s = <<"v", "1", ".", "0", ".", "7", "-", "a", "l", "p", "h", "a">>
    /\ v = [Major |-> 1, Minor |-> 0, Patch |-> 7,
            Prerelease |-> <<"a", "l", "p", "h", "a">>]
    /\ out = s

\* C6: Parse ends with a nil error, EmptyVersion or IllegalVersion; with
\* EmptyVersion exactly when the input has length zero; and with
\* IllegalVersion for every non-empty input that does not start with 'v'.
C6_ErrorKinds ==
    Returned =>
        /\ err \in {NoError, EmptyVersion, IllegalVersion}
        /\ err = EmptyVersion <=> Len(s) = 0
        /\ (Len(s) > 0 /\ s[1] # "v") => err = IllegalVersion

C6_Witness ==
    /\ pc = "done"
    /\ s = <<"1", ".", "2", ".", "3", "h", "a", "h", "a">>
    /\ err = IllegalVersion

HasEmptyRun(str) == \E k \in 1..Len(FieldRuns(str)) : FieldRuns(str)[k] = <<>>

\* the major run is empty, or some numeric field has an empty run that a
\* separator follows
HasEmptyRunInside(str) ==
    \E k \in 1..Len(FieldRuns(str)) :
        /\ FieldRuns(str)[k] = <<>>
        /\ k = 1 \/ FieldEnds(str)[k] <= Len(str)

\* the input ends right after the separator that closes its major or minor
\* field, and the fields before that separator are decimal digits denoting
\* numbers in the range of int
EndsAfterSeparator(str) ==
    LET n == Len(FieldRuns(str))
    IN  /\ n >= 2
        /\ FieldRuns(str)[n] = <<>>
        /\ FieldEnds(str)[n] > Len(str)
        /\ \A k \in 1..(n - 1) :
                IsDigits(FieldRuns(str)[k]) /\ ~ExceedsInt(FieldRuns(str)[k])

\* C8 as stated: Parse fails with IllegalVersion whenever a numeric field's run
\* is empty, also when the input ends with a separator that has nothing after
\* it ("v1.", "v1.2.", "v1-").
C8_EmptyRunRejected ==
    (Returned /\ HasPrefixV(s) /\ HasEmptyRun(s)) => err = IllegalVersion

\* C8 as amended: Parse fails with IllegalVersion when the major run is empty
\* or a numeric field's empty run is followed by a separator; an input that
\* ends right after the separator closing a well-formed major or minor field
\* is accepted, with the fields not read 0 and no Prerelease.
C8_EmptyRunInsideRejected ==
    (Returned /\ HasPrefixV(s)) =>
        /\ HasEmptyRunInside(s) => err = IllegalVersion
        /\ EndsAfterSeparator(s) =>
                /\ err = NoError
                /\ v.Major = DigitsValue(FieldRuns(s)[1])
                /\ v.Minor = IF Len(FieldRuns(s)) = 3
                             THEN DigitsValue(FieldRuns(s)[2]) ELSE 0
                /\ v.Patch = 0
                /\ v.Prerelease = <<>>

C8_Witness ==
    /\ pc = "done"
    /\ s = <<"v", "1", ".", ".", "3">>
    /\ HasEmptyRunInside(s)
    /\ state = foundMajor
    /\ err = IllegalVersion

\* some numeric field of the input starts with a sign character
HasSignedRun(str) ==
    \E k \in 1..Len(FieldRuns(str)) :
        /\ FieldRuns(str)[k] # <<>>
        /\ FieldRuns(str)[k][1] \in {"+", "-"}

\* C9: an input whose major, minor or patch run carries a leading sign
\* character is rejected with IllegalVersion.
C9_SignedRunRejected ==
    (Returned /\ HasPrefixV(s) /\ HasSignedRun(s)) => err = IllegalVersion

====
